---- MODULE Spec2Model ----
(***************************************************************************)
(* Model of the Transaction Processor: the Client account operations       *)
(* (client.rs), the Transaction record and its validator (transaction.rs)  *)
(* and the TransactionProcessor that reads a CSV stream record by record   *)
(* and applies each validated record to its ledger (processor.rs).         *)
(*                                                                         *)
(* Amounts are f64 in the source.  The model draws them from a range of    *)
(* integers, on which f64 addition, subtraction and comparison are exact,  *)
(* so the arithmetic below is the arithmetic of the code on those inputs.  *)
(***************************************************************************)
EXTENDS Integers, Sequences, FiniteSets, TLC

\* ---------------------------------------------------------------- bounds
MaxAmount == 1
MaxRecords == 4

\* the account IDs and transaction IDs the stream draws from
ClientIDs == {1, 2}
TransactionIDs == {1, 2}
\* zero and negative amounts pass validation, so the stream can carry them
Amounts == (0 - 1)..MaxAmount

\* ------------------------------------------------------- Option<f64>
None == <<>>
Some(a) == <<a>>
is_some(o) == Len(o) = 1
is_none(o) == Len(o) = 0
unwrap(o) == o[1]

\* ------------------------------------------------------- transaction.rs
FundsTypes == {"Deposit", "Withdrawal"}
ControlTypes == {"Dispute", "Resolve", "Chargeback"}
TransactionType == FundsTypes \cup ControlTypes

Transaction(typ, client, id, amount, in_dispute) ==
    [typ |-> typ, client |-> client, id |-> id, amount |-> amount,
     in_dispute |-> in_dispute]

\* Records the CSV reader can deserialize: the amount column is optional for
\* every type, and in_dispute is skipped by serde, so it takes its default.
Decoded ==
    { Transaction(ty, c, i, a, FALSE) :
        ty \in TransactionType, c \in ClientIDs, i \in TransactionIDs,
        a \in {None} \cup { Some(x) : x \in Amounts } }

\* Every record Transaction can hold over the model's IDs and amounts, as
\* the constructors and struct literals of the crate can build them.
Records ==
    { Transaction(ty, c, i, a, d) :
        ty \in TransactionType, c \in ClientIDs, i \in TransactionIDs,
        a \in {None} \cup { Some(x) : x \in Amounts }, d \in BOOLEAN }

\* validate that turns down amounts that are not positive
validate_positive(t) ==
    IF t.typ \in FundsTypes
    THEN is_some(t.amount) /\ unwrap(t.amount) > 0
    ELSE is_none(t.amount) /\ ~t.in_dispute

validate(t) ==
    IF t.typ \in FundsTypes
    THEN is_some(t.amount)
    ELSE is_none(t.amount) /\ ~t.in_dispute

\* is_disputed that answers yes for every stored record
is_disputed_always(t) == TRUE

is_disputed(t) == t.in_dispute

\* set_disputed that leaves the flag alone
set_disputed_noop(t) == t

set_disputed(t) ==
    IF t.typ \in FundsTypes THEN [t EXCEPT !.in_dispute = TRUE] ELSE t

\* clear_disputed that leaves the flag alone
clear_disputed_noop(t) == t

clear_disputed(t) ==
    IF t.typ \in FundsTypes THEN [t EXCEPT !.in_dispute = FALSE] ELSE t

\* ------------------------------------------------------------ client.rs
ClientNew(id) ==
    [id |-> id, available |-> 0, held |-> 0, total |-> 0, locked |-> FALSE]

\* Each balance operation yields the client after the call and the bool it
\* returns.
\* add_funds without the lock check
add_funds_nolock(c, amount) ==
    [client |-> [c EXCEPT !.available = @ + amount, !.total = @ + amount],
     ok |-> TRUE]

add_funds(c, amount) ==
    IF ~c.locked
    THEN [client |-> [c EXCEPT !.available = @ + amount, !.total = @ + amount],
          ok |-> TRUE]
    ELSE [client |-> c, ok |-> FALSE]

\* remove_funds without the sufficient-funds check
remove_funds_nocheck(c, amount) ==
    IF ~c.locked
    THEN [client |-> [c EXCEPT !.available = @ - amount, !.total = @ - amount],
          ok |-> TRUE]
    ELSE [client |-> c, ok |-> FALSE]

remove_funds(c, amount) ==
    IF (c.available >= amount) /\ ~c.locked
    THEN [client |-> [c EXCEPT !.available = @ - amount, !.total = @ - amount],
          ok |-> TRUE]
    ELSE [client |-> c, ok |-> FALSE]

\* hold_funds that forgets to credit the held balance
hold_funds_nohold(c, amount) ==
    IF ~c.locked
    THEN [client |-> [c EXCEPT !.available = @ - amount], ok |-> TRUE]
    ELSE [client |-> c, ok |-> FALSE]

hold_funds(c, amount) ==
    IF ~c.locked
    THEN [client |-> [c EXCEPT !.available = @ - amount, !.held = @ + amount],
          ok |-> TRUE]
    ELSE [client |-> c, ok |-> FALSE]

\* restore_funds that also credits the total
restore_funds_total(c, amount) ==
    IF (c.held >= amount) /\ ~c.locked
    THEN [client |-> [c EXCEPT !.available = @ + amount, !.held = @ - amount,
                               !.total = @ + amount],
          ok |-> TRUE]
    ELSE [client |-> c, ok |-> FALSE]

\* restore_funds that leaves the held balance as it is
restore_funds_keepheld(c, amount) ==
    IF (c.held >= amount) /\ ~c.locked
    THEN [client |-> [c EXCEPT !.available = @ + amount], ok |-> TRUE]
    ELSE [client |-> c, ok |-> FALSE]

\* restore_funds without the held-funds check
restore_funds_unguarded(c, amount) ==
    IF ~c.locked
    THEN [client |-> [c EXCEPT !.available = @ + amount, !.held = @ - amount],
          ok |-> TRUE]
    ELSE [client |-> c, ok |-> FALSE]

restore_funds(c, amount) ==
    IF (c.held >= amount) /\ ~c.locked
    THEN [client |-> [c EXCEPT !.available = @ + amount, !.held = @ - amount],
          ok |-> TRUE]
    ELSE [client |-> c, ok |-> FALSE]

\* lock that does nothing
lock_noop(c) == c

lock(c) == [c EXCEPT !.locked = TRUE]

\* --------------------------------------------------------- processor.rs
VARIABLES
    clients,        \* HashMap<ClientID,Client>
    transactions,   \* HashMap<TransactionID,Transaction>
    status,         \* where process_csv_stream stands: reading, or its result
    nread,          \* number of records taken from the reader so far
    trans,          \* the record taken from the reader by the latest iteration
    refused,        \* history: what became of the funds-moving records of each ID
    output,         \* the rows main has written to stdout
    referenced,     \* history: the kinds of transaction that named each account
    before,         \* history: the account and record a Dispute found
    orderly         \* history: the stream so far kept to the orderly use below

vars == <<clients, transactions, status, nread, trans, refused, output,
          referenced, before, orderly>>

\* HashMap::insert: adds the key or replaces the value it had
Insert(m, k, v) == [x \in (DOMAIN m) \cup {k} |-> IF x = k THEN v ELSE m[x]]

EmptyMap == [x \in {} |-> 0]

\* the latest step was not a Dispute of the kind Snapshot keeps
NoSnapshot == [taken |-> FALSE]

\* no record has been read yet
NoTrans == Transaction("None", 0, 0, None, FALSE)

Init ==
    /\ clients = EmptyMap
    /\ transactions = EmptyMap
    /\ status = "reading"
    /\ nread = 0
    /\ trans = NoTrans
    /\ refused = [i \in TransactionIDs |-> "unused"]
    /\ output = <<>>
    /\ referenced = [c \in ClientIDs |-> "none"]
    /\ before = NoSnapshot
    /\ orderly = TRUE

\* client lookup that starts from a new client every time
ClientFor_fresh(t) == ClientNew(t.client)

\* the client the transaction names, created if it does not exist yet
ClientFor(t) ==
    IF t.client \in DOMAIN clients THEN clients[t.client] ELSE ClientNew(t.client)

\* History of the funds-moving records read under one transaction ID:
\* "unused" while the stream has carried none, "refused" when it has carried
\* exactly one and that one was a Withdrawal remove_funds turned down,
\* "other" in every other case.
Note(t, ok) ==
    IF t.typ \in FundsTypes
    THEN [refused EXCEPT ![t.id] =
            IF @ = "unused" /\ t.typ = "Withdrawal" /\ ~ok
            THEN "refused" ELSE "other"]
    ELSE refused

\* Deposit arm: add funds to client and record transaction
DepositArm(t) ==
    LET r == add_funds(ClientFor(t), unwrap(t.amount))
    IN  /\ t.typ = "Deposit"
        /\ clients' = Insert(clients, t.client, r.client)
        /\ transactions' = Insert(transactions, t.id, t)
        /\ refused' = Note(t, r.ok)

\* Withdrawal arm that records the transaction like the Deposit arm does,
\* whatever remove_funds returned
WithdrawalArm_record(t) ==
    LET r == remove_funds(ClientFor(t), unwrap(t.amount))
    IN  /\ t.typ = "Withdrawal"
        /\ clients' = Insert(clients, t.client, r.client)
        /\ transactions' = Insert(transactions, t.id, t)
        /\ refused' = Note(t, r.ok)

\* Withdrawal arm: remove funds from client and record transaction if remove
\* was possible
WithdrawalArm(t) ==
    LET r == remove_funds(ClientFor(t), unwrap(t.amount))
    IN  /\ t.typ = "Withdrawal"
        /\ clients' = Insert(clients, t.client, r.client)
        /\ transactions' = IF r.ok THEN Insert(transactions, t.id, t)
                                   ELSE transactions
        /\ refused' = Note(t, r.ok)

\* Dispute arm that marks the record only when the funds could be held
DisputeArm_ifheld(t) ==
    /\ t.typ = "Dispute"
    /\ IF t.id \in DOMAIN transactions
       THEN LET trans_other == transactions[t.id]
                r == hold_funds(ClientFor(t), unwrap(trans_other.amount))
            IN  /\ clients' = Insert(clients, t.client, r.client)
                /\ transactions' =
                       IF r.ok
                       THEN [transactions EXCEPT
                                ![t.id] = set_disputed(trans_other)]
                       ELSE transactions
       ELSE /\ clients' = Insert(clients, t.client, ClientFor(t))
            /\ transactions' = transactions
    /\ refused' = Note(t, TRUE)

\* Dispute arm that files the dispute under its ID when it finds no record
DisputeArm_insert(t) ==
    /\ t.typ = "Dispute"
    /\ IF t.id \in DOMAIN transactions
       THEN LET trans_other == transactions[t.id]
                r == hold_funds(ClientFor(t), unwrap(trans_other.amount))
            IN  /\ clients' = Insert(clients, t.client, r.client)
                /\ transactions' =
                       [transactions EXCEPT ![t.id] = set_disputed(trans_other)]
       ELSE /\ clients' = Insert(clients, t.client, ClientFor(t))
            /\ transactions' = Insert(transactions, t.id, t)
    /\ refused' = Note(t, TRUE)

\* Dispute arm that marks every stored record as disputed
DisputeArm_all(t) ==
    /\ t.typ = "Dispute"
    /\ IF t.id \in DOMAIN transactions
       THEN LET trans_other == transactions[t.id]
                r == hold_funds(ClientFor(t), unwrap(trans_other.amount))
            IN  /\ clients' = Insert(clients, t.client, r.client)
                /\ transactions' =
                       [i \in DOMAIN transactions |->
                           set_disputed(transactions[i])]
       ELSE /\ clients' = Insert(clients, t.client, ClientFor(t))
            /\ transactions' = transactions
    /\ refused' = Note(t, TRUE)

\* Dispute arm: if disputed transaction was found hold funds from client
DisputeArm(t) ==
    /\ t.typ = "Dispute"
    /\ IF t.id \in DOMAIN transactions
       THEN LET trans_other == transactions[t.id]
                r == hold_funds(ClientFor(t), unwrap(trans_other.amount))
            IN  /\ clients' = Insert(clients, t.client, r.client)
                /\ transactions' =
                       [transactions EXCEPT ![t.id] = set_disputed(trans_other)]
       ELSE /\ clients' = Insert(clients, t.client, ClientFor(t))
            /\ transactions' = transactions
    /\ refused' = Note(t, TRUE)

\* Resolve arm that files the Resolve itself in place of the record it settles
ResolveArm_store(t) ==
    /\ t.typ = "Resolve"
    /\ IF t.id \in DOMAIN transactions /\ is_disputed(transactions[t.id])
       THEN LET trans_other == transactions[t.id]
                r == restore_funds(ClientFor(t), unwrap(trans_other.amount))
            IN  /\ clients' = Insert(clients, t.client, r.client)
                /\ transactions' = Insert(transactions, t.id, t)
       ELSE /\ clients' = Insert(clients, t.client, ClientFor(t))
            /\ transactions' = transactions
    /\ refused' = Note(t, TRUE)

\* Resolve arm: if disputed transaction was found and is in dispute restore
\* held funds to client
ResolveArm(t) ==
    /\ t.typ = "Resolve"
    /\ IF t.id \in DOMAIN transactions /\ is_disputed(transactions[t.id])
       THEN LET trans_other == transactions[t.id]
                r == restore_funds(ClientFor(t), unwrap(trans_other.amount))
            IN  /\ clients' = Insert(clients, t.client, r.client)
                /\ transactions' =
                       [transactions EXCEPT ![t.id] = clear_disputed(trans_other)]
       ELSE /\ clients' = Insert(clients, t.client, ClientFor(t))
            /\ transactions' = transactions
    /\ refused' = Note(t, TRUE)

\* Chargeback arm that does not ask whether the record is in dispute
ChargebackArm_found(t) ==
    /\ t.typ = "Chargeback"
    /\ IF t.id \in DOMAIN transactions
       THEN LET trans_other == transactions[t.id]
                r1 == restore_funds(ClientFor(t), unwrap(trans_other.amount))
                r2 == remove_funds(r1.client, unwrap(trans_other.amount))
            IN  /\ clients' = Insert(clients, t.client, lock(r2.client))
                /\ transactions' =
                       [transactions EXCEPT ![t.id] = clear_disputed(trans_other)]
       ELSE /\ clients' = Insert(clients, t.client, ClientFor(t))
            /\ transactions' = transactions
    /\ refused' = Note(t, TRUE)

\* Chargeback arm that takes the charged-back record out of the history
ChargebackArm_remove(t) ==
    /\ t.typ = "Chargeback"
    /\ IF t.id \in DOMAIN transactions /\ is_disputed(transactions[t.id])
       THEN LET trans_other == transactions[t.id]
                r1 == restore_funds(ClientFor(t), unwrap(trans_other.amount))
                r2 == remove_funds(r1.client, unwrap(trans_other.amount))
            IN  /\ clients' = Insert(clients, t.client, lock(r2.client))
                /\ transactions' =
                       [i \in DOMAIN transactions \ {t.id} |-> transactions[i]]
       ELSE /\ clients' = Insert(clients, t.client, ClientFor(t))
            /\ transactions' = transactions
    /\ refused' = Note(t, TRUE)

\* Chargeback arm: if disputed transaction was found and is in dispute remove
\* held funds from client and lock client
ChargebackArm(t) ==
    /\ t.typ = "Chargeback"
    /\ IF t.id \in DOMAIN transactions /\ is_disputed(transactions[t.id])
       THEN LET trans_other == transactions[t.id]
                r1 == restore_funds(ClientFor(t), unwrap(trans_other.amount))
                r2 == remove_funds(r1.client, unwrap(trans_other.amount))
            IN  /\ clients' = Insert(clients, t.client, lock(r2.client))
                /\ transactions' =
                       [transactions EXCEPT ![t.id] = clear_disputed(trans_other)]
       ELSE /\ clients' = Insert(clients, t.client, ClientFor(t))
            /\ transactions' = transactions
    /\ refused' = Note(t, TRUE)

\* Process a single transaction; a client is created if one does not exist
process_transaction(t) ==
    \/ DepositArm(t)
    \/ WithdrawalArm(t)
    \/ DisputeArm(t)
    \/ ResolveArm(t)
    \/ ChargebackArm(t)

\* History of the transactions handed to process_transaction for one account
\* ID: "none" while there was none, "control" while they were all Disputes,
\* Resolves or Chargebacks, "funds" once one was a Deposit or Withdrawal.
Refer(t) ==
    [referenced EXCEPT ![t.client] =
        IF t.typ \in FundsTypes THEN "funds"
        ELSE IF @ = "none" THEN "control" ELSE @]

\* History for the Dispute/Resolve round trip: when t is a Dispute of a stored,
\* not disputed Deposit of positive amount owned by the unlocked account t
\* names, the account and the record as they are before t is applied.
Snapshot(t) ==
    IF /\ t.typ = "Dispute"
       /\ t.id \in DOMAIN transactions
       /\ transactions[t.id].typ = "Deposit"
       /\ ~transactions[t.id].in_dispute
       /\ transactions[t.id].client = t.client
       /\ unwrap(transactions[t.id].amount) > 0
       /\ t.client \in DOMAIN clients
       /\ ~clients[t.client].locked
    THEN [taken |-> TRUE, client |-> clients[t.client],
          record |-> transactions[t.id]]
    ELSE NoSnapshot

\* History of the stream for the held-funds account: t keeps to the orderly
\* use of the processor when a Deposit or Withdrawal has a positive amount
\* and an ID no earlier Deposit or Withdrawal carried, a Dispute, Resolve or
\* Chargeback that finds a record names the account that owns it, and a
\* Dispute does not name a record already in dispute.
Orderly(t) ==
    /\ t.typ \in FundsTypes =>
          unwrap(t.amount) > 0 /\ refused[t.id] = "unused"
    /\ (t.typ \in ControlTypes /\ t.id \in DOMAIN transactions) =>
          transactions[t.id].client = t.client
    /\ (t.typ = "Dispute" /\ t.id \in DOMAIN transactions) =>
          ~transactions[t.id].in_dispute

\* One iteration of the loop of process_csv_stream over a record of the set
\* S that deserializes and validates, in a stream of at most max records: it
\* is handed to process_transaction.
ReadValidFrom(S, max) ==
    /\ status = "reading"
    /\ nread < max
    /\ \E t \in S :
          /\ validate(t)
          /\ process_transaction(t)
          /\ trans' = t
    /\ nread' = nread + 1
    /\ status' = status
    /\ output' = output
    /\ referenced' = Refer(trans')
    /\ before' = Snapshot(trans')
    /\ orderly' = (orderly /\ Orderly(trans'))

ReadValid == ReadValidFrom(Decoded, MaxRecords)

\* An iteration that skips a record failing validate() and goes on reading
ReadInvalid_skip ==
    /\ status = "reading"
    /\ nread < MaxRecords
    /\ \E t \in Decoded :
          /\ ~validate(t)
          /\ trans' = t
    /\ nread' = nread + 1
    /\ status' = "reading"
    /\ UNCHANGED <<clients, transactions, refused, output, referenced, before, orderly>>

\* An iteration over a record that deserializes but fails validate():
\* process_csv_stream returns TransactionValidateError.
ReadInvalid ==
    /\ status = "reading"
    /\ nread < MaxRecords
    /\ \E t \in Decoded :
          /\ ~validate(t)
          /\ trans' = t
    /\ nread' = nread + 1
    /\ status' = "TransactionValidateError"
    /\ UNCHANGED <<clients, transactions, refused, output, referenced, before, orderly>>

\* An iteration over a line that does not deserialize: process_csv_stream
\* returns CSVError.
ReadCsvError ==
    /\ status = "reading"
    /\ nread < MaxRecords
    /\ nread' = nread + 1
    /\ status' = "CSVError"
    /\ UNCHANGED <<clients, transactions, trans, refused, output, referenced,
                 before, orderly>>

\* The reader is exhausted: process_csv_stream returns Ok(()).
EndOfStream ==
    /\ status = "reading"
    /\ status' = "Ok"
    /\ UNCHANGED <<clients, transactions, nread, trans, refused, output,
                 referenced, before, orderly>>

\* format!("{:.4}", data) on a whole number: sign, decimal digits of the
\* magnitude, the point and four zeros, one string per character
DigitChar(d) == <<"0", "1", "2", "3", "4", "5", "6", "7", "8", "9">>[d + 1]

RECURSIVE Digits(_)
Digits(n) ==
    IF n < 10 THEN <<DigitChar(n)>>
    ELSE Append(Digits(n \div 10), DigitChar(n % 10))

serialize_f64_to_4(data) ==
    (IF data < 0 THEN <<"-">> ELSE <<>>)
        \o Digits(IF data < 0 THEN 0 - data ELSE data)
        \o <<".", "0", "0", "0", "0">>

\* the row csv_writer.serialize(c) writes for a client
Row(c) ==
    [client |-> c.id,
     available |-> serialize_f64_to_4(c.available),
     held |-> serialize_f64_to_4(c.held),
     total |-> serialize_f64_to_4(c.total),
     locked |-> c.locked]

\* the orders in which HashMap::values() can iterate over a map
ValuesOrders(m) ==
    { o \in [1..Cardinality(DOMAIN m) -> DOMAIN m] :
        \A i, j \in 1..Cardinality(DOMAIN m) : o[i] = o[j] => i = j }

\* write_csv_to_stream that walks the stored transactions and writes the
\* account of each one's client
WriteCsv_owners ==
    /\ status = "Ok"
    /\ LET owners == [c \in { transactions[i].client : i \in DOMAIN transactions }
                        |-> clients[c]]
       IN  \E o \in ValuesOrders(owners) :
             output' = [i \in 1..Cardinality(DOMAIN owners) |-> Row(owners[o[i]])]
    /\ status' = "written"
    /\ UNCHANGED <<clients, transactions, nread, trans, refused, referenced,
                 before, orderly>>

\* main: process_csv_stream returned Ok, so its unwrap passes and
\* write_csv_to_stream writes one row per client to stdout.  On an Err the
\* unwrap panics and nothing is written.
WriteCsv ==
    /\ status = "Ok"
    /\ \E o \in ValuesOrders(clients) :
          output' = [i \in 1..Cardinality(DOMAIN clients) |-> Row(clients[o[i]])]
    /\ status' = "written"
    /\ UNCHANGED <<clients, transactions, nread, trans, refused, referenced,
                 before, orderly>>

Next ==
    \/ ReadValid
    \/ ReadInvalid
    \/ ReadCsvError
    \/ EndOfStream
    \/ WriteCsv

Spec == Init /\ [][Next]_vars

\* ------------------------------------------------------------ properties

\* the account under an ID in a client map; an ID the map does not hold yet
\* stands for the account its first transaction would create
Account(m, c) == IF c \in DOMAIN m THEN m[c] ELSE ClientNew(c)

Balances(c) == <<c.available, c.held, c.total>>

\* this step handed the record trans' to process_transaction
Applied(typ) ==
    /\ status = "reading"
    /\ status' = "reading"
    /\ nread' = nread + 1
    /\ trans'.typ = typ

\* the latest iteration handed trans to process_transaction
Processed(typ) == status = "reading" /\ nread > 0 /\ trans.typ = typ

\* no account's balances or lock changed in this step
SameAccounts == \A c \in ClientIDs : Account(clients', c) = Account(clients, c)

\* C1: after every transaction, every account of the ledger has
\* total = available + held, also after a chargeback whose restore or remove
\* sub-step failed.
TotalIsAvailablePlusHeld ==
    \A c \in DOMAIN clients :
        clients[c].total = clients[c].available + clients[c].held

\* C1 witness: a Chargeback has locked an account that still holds funds,
\* which is what a failed remove sub-step leaves behind.
ChargebackLeftHeld ==
    /\ Processed("Chargeback")
    /\ clients[trans.client].locked
    /\ clients[trans.client].held > 0
    /\ clients[trans.client].total > 0

\* C2: once an account is locked, no later transaction of any type changes
\* its available, held or total balance.
LockedBalancesFrozen ==
    [][\A c \in DOMAIN clients :
          clients[c].locked =>
              /\ c \in DOMAIN clients'
              /\ Balances(clients'[c]) = Balances(clients[c])]_vars

\* C2 witness: a Deposit has been processed for an account that is locked.
DepositOnLocked ==
    /\ Processed("Deposit")
    /\ clients[trans.client].locked
    /\ unwrap(trans.amount) > 0

\* C3: a Withdrawal whose amount exceeds the available balance, or whose
\* account is locked, does not succeed: the balances are unchanged (and the
\* record is not stored).
WithdrawalRefused ==
    [][Applied("Withdrawal") =>
          LET c == Account(clients, trans'.client)
          IN  (unwrap(trans'.amount) > c.available \/ c.locked) =>
                  /\ Account(clients', trans'.client) = c
                  /\ transactions' = transactions]_vars

\* C3 witness: the only funds-moving record of an ID was a Withdrawal turned
\* down on an unlocked account, that is, for insufficient available funds.
WithdrawalTurnedDown ==
    /\ Processed("Withdrawal")
    /\ refused[trans.id] = "refused"
    /\ ~clients[trans.client].locked
    /\ unwrap(trans.amount) > clients[trans.client].available

\* the stored record a control transaction names
Stored(id) == transactions[id]

\* the effect on the account named by trans' of holding amount a
HeldBy(a) ==
    LET c == Account(clients, trans'.client)
        d == Account(clients', trans'.client)
    IN  /\ d.held = c.held + a
        /\ d.available = c.available - a
        /\ d.total = c.total

\* the effect on the account named by trans' of releasing amount a
ReleasedBy(a) ==
    LET c == Account(clients, trans'.client)
        d == Account(clients', trans'.client)
    IN  /\ d.held = c.held - a
        /\ d.available = c.available + a
        /\ d.total = c.total

\* the effect on the account named by trans' of charging back amount a
ChargedBackBy(a) ==
    LET c == Account(clients, trans'.client)
        d == Account(clients', trans'.client)
    IN  /\ d.held = c.held - a
        /\ d.total = c.total - a
        /\ d.available = c.available

\* C4 as stated: whenever a Deposit of amount A is stored under an ID, a
\* Dispute naming the ID gives held += A, available -= A, total unchanged
\* and sets the record's in_dispute flag.
DisputeAlwaysHolds ==
    [][(/\ Applied("Dispute")
        /\ trans'.id \in DOMAIN transactions
        /\ Stored(trans'.id).typ = "Deposit") =>
          /\ HeldBy(unwrap(Stored(trans'.id).amount))
          /\ transactions'[trans'.id].in_dispute]_vars

\* C4 amended: the same, the balance change only when the account the Dispute
\* names is not locked; on a locked account the balances stay as they were.
\* The flag is set in both cases.
DisputeHoldsUnlessLocked ==
    [][(/\ Applied("Dispute")
        /\ trans'.id \in DOMAIN transactions
        /\ Stored(trans'.id).typ = "Deposit") =>
          /\ IF Account(clients, trans'.client).locked
             THEN Account(clients', trans'.client) =
                      Account(clients, trans'.client)
             ELSE HeldBy(unwrap(Stored(trans'.id).amount))
          /\ transactions'[trans'.id].in_dispute]_vars

\* C4 witness: a Dispute of a stored Deposit of positive amount has been
\* processed on an unlocked account and the amount is held.
DisputeHeldDeposit ==
    /\ Processed("Dispute")
    /\ trans.id \in DOMAIN transactions
    /\ Stored(trans.id).typ = "Deposit"
    /\ Stored(trans.id).in_dispute
    /\ unwrap(Stored(trans.id).amount) > 0
    /\ ~clients[trans.client].locked
    /\ clients[trans.client].held = unwrap(Stored(trans.id).amount)

\* C5 as stated: whenever a stored transaction of amount A is in dispute, a
\* Resolve naming it gives held -= A, available += A, total unchanged and
\* clears the flag.
ResolveAlwaysReleases ==
    [][(/\ Applied("Resolve")
        /\ trans'.id \in DOMAIN transactions
        /\ Stored(trans'.id).in_dispute) =>
          /\ ReleasedBy(unwrap(Stored(trans'.id).amount))
          /\ ~transactions'[trans'.id].in_dispute]_vars

\* C5 amended: the balance change only when the account the Resolve names is
\* not locked and holds at least A; otherwise the balances stay as they were.
\* The flag is cleared in both cases.
ResolveReleasesIfHeld ==
    [][(/\ Applied("Resolve")
        /\ trans'.id \in DOMAIN transactions
        /\ Stored(trans'.id).in_dispute) =>
          LET c == Account(clients, trans'.client)
              a == unwrap(Stored(trans'.id).amount)
          IN  /\ IF ~c.locked /\ c.held >= a
                 THEN ReleasedBy(a)
                 ELSE Account(clients', trans'.client) = c
              /\ ~transactions'[trans'.id].in_dispute]_vars

\* C5 witness: a Resolve has been processed that released a positive amount:
\* the record is stored and no longer in dispute, and the account is unlocked
\* with nothing held and the amount available.
ResolveReleased ==
    /\ Processed("Resolve")
    /\ trans.id \in DOMAIN transactions
    /\ ~Stored(trans.id).in_dispute
    /\ Stored(trans.id).typ = "Deposit"
    /\ Stored(trans.id).client = trans.client
    /\ unwrap(Stored(trans.id).amount) > 0
    /\ ~clients[trans.client].locked
    /\ clients[trans.client].held = 0
    /\ clients[trans.client].available = unwrap(Stored(trans.id).amount)
    /\ nread = 3

\* C6 as stated: whenever a stored transaction of amount A is in dispute, a
\* Chargeback naming it gives held -= A, total -= A, available unchanged,
\* locks the account and clears the flag.
ChargebackAlwaysRemoves ==
    [][(/\ Applied("Chargeback")
        /\ trans'.id \in DOMAIN transactions
        /\ Stored(trans'.id).in_dispute) =>
          /\ ChargedBackBy(unwrap(Stored(trans'.id).amount))
          /\ Account(clients', trans'.client).locked
          /\ ~transactions'[trans'.id].in_dispute]_vars

\* C6 amended: the balance change only when the account the Chargeback names
\* is not locked, holds at least A and has available >= 0, so that both the
\* restore and the remove sub-step succeed.  The account is locked and the
\* flag is cleared in every case.
ChargebackRemovesIfPossible ==
    [][(/\ Applied("Chargeback")
        /\ trans'.id \in DOMAIN transactions
        /\ Stored(trans'.id).in_dispute) =>
          LET c == Account(clients, trans'.client)
              a == unwrap(Stored(trans'.id).amount)
          IN  /\ (~c.locked /\ c.held >= a /\ c.available >= 0) =>
                      ChargedBackBy(a)
              /\ Account(clients', trans'.client).locked
              /\ ~transactions'[trans'.id].in_dispute]_vars

\* C6 witness: a Chargeback of a disputed Deposit of positive amount has been
\* processed: the deposit, its dispute and the chargeback are the whole
\* stream, the account is locked and its balances are back to zero.
ChargebackRemoved ==
    /\ Processed("Chargeback")
    /\ trans.id \in DOMAIN transactions
    /\ ~Stored(trans.id).in_dispute
    /\ Stored(trans.id).typ = "Deposit"
    /\ Stored(trans.id).client = trans.client
    /\ unwrap(Stored(trans.id).amount) > 0
    /\ clients[trans.client].locked
    /\ Balances(clients[trans.client]) = <<0, 0, 0>>
    /\ nread = 3

\* this step handed a Dispute, Resolve or Chargeback to process_transaction
AppliedControl == \E typ \in ControlTypes : Applied(typ)

\* C7: a Resolve or Chargeback naming a stored transaction whose in_dispute
\* flag is false changes nothing: no account's available, held, total or
\* locked flag, and no stored record.
UndisputedControlIgnored ==
    [][(/\ Applied("Resolve") \/ Applied("Chargeback")
        /\ trans'.id \in DOMAIN transactions
        /\ ~Stored(trans'.id).in_dispute) =>
          /\ SameAccounts
          /\ transactions' = transactions]_vars

\* C7 witness: a Chargeback has been processed that names a stored record
\* which is not in dispute, on an unlocked account that has funds held for
\* another dispute.
UndisputedChargebackSeen ==
    /\ Processed("Chargeback")
    /\ trans.id \in DOMAIN transactions
    /\ ~Stored(trans.id).in_dispute
    /\ ~clients[trans.client].locked
    /\ clients[trans.client].held > 0

\* C8: a Dispute, Resolve or Chargeback whose ID matches no stored record
\* changes no balance, no locked flag and no stored record; and a Deposit
\* under an ID that has no stored record is stored as not disputed.
UnmatchedControlIgnored ==
    [][/\ (AppliedControl /\ trans'.id \notin DOMAIN transactions) =>
            /\ SameAccounts
            /\ transactions' = transactions
       /\ (Applied("Deposit") /\ trans'.id \notin DOMAIN transactions) =>
            /\ trans'.id \in DOMAIN transactions'
            /\ ~transactions'[trans'.id].in_dispute
            /\ transactions'[trans'.id].typ = "Deposit"]_vars

\* C8 witness: a Dispute has been processed whose ID no stored record has,
\* while the ledger has an account with funds it could have held.
UnmatchedDisputeSeen ==
    /\ Processed("Dispute")
    /\ trans.id \notin DOMAIN transactions
    /\ trans.client \in DOMAIN clients
    /\ clients[trans.client].available > 0
    /\ transactions # EmptyMap

\* C9 as stated: a Deposit processed while its account is locked changes no
\* balance and is not stored in the transaction history.
LockedDepositDropped ==
    [][(Applied("Deposit") /\ Account(clients, trans'.client).locked) =>
          /\ SameAccounts
          /\ transactions' = transactions]_vars

InitValidate ==
    /\ clients = EmptyMap
    /\ transactions = EmptyMap
    /\ status = "built"
    /\ nread = 0
    /\ trans \in Records
    /\ refused = [i \in TransactionIDs |-> "unused"]
    /\ output = <<>>
    /\ referenced = [c \in ClientIDs |-> "none"]
    /\ before = NoSnapshot
    /\ orderly = TRUE

CallValidate ==
    /\ status = "built"
    /\ status' = IF validate(trans) THEN "valid" ELSE "invalid"
    /\ UNCHANGED <<clients, transactions, nread, trans, refused, output,
                 referenced, before, orderly>>

NextValidate == CallValidate

SpecValidate == InitValidate /\ [][NextValidate]_vars

\* C11: validate() answers true exactly when the type is Deposit or
\* Withdrawal and the amount is present, or the type is Dispute, Resolve or
\* Chargeback and the amount is absent and in_dispute is false; the client,
\* the ID and the value of a present amount play no part.
ValidateIsAmountPresence ==
    status \in {"valid", "invalid"} =>
        (status = "valid" <=>
            \/ trans.typ \in {"Deposit", "Withdrawal"} /\ trans.amount # None
            \/ /\ trans.typ \in {"Dispute", "Resolve", "Chargeback"}
               /\ trans.amount = None
               /\ trans.in_dispute = FALSE)

\* C11 witness: validate() has accepted a Withdrawal whose amount is not
\* positive.
ValidateAcceptedNonPositive ==
    /\ status = "valid"
    /\ trans.typ = "Withdrawal"
    /\ unwrap(trans.amount) <= 0

\* C12: when the stream carries a record that fails validation, the run ends
\* with a validation error at that record: the record is not applied to the
\* ledger, nothing happens after it (no later record is applied), and no
\* account row is written.
ValidationFailureAborts ==
    [][/\ (nread' = nread + 1 /\ status' # "CSVError" /\ ~validate(trans')) =>
            /\ status' = "TransactionValidateError"
            /\ clients' = clients
            /\ transactions' = transactions
            /\ output' = <<>>
       /\ status # "TransactionValidateError"]_vars

\* C12 witness: the run has ended with a validation error on a deposit
\* without amount, after records that were applied.
AbortedOnDepositWithoutAmount ==
    /\ status = "TransactionValidateError"
    /\ trans.typ = "Deposit"
    /\ trans.amount = None
    /\ nread > 1
    /\ clients # EmptyMap
    /\ output = <<>>

\* the account IDs of the rows written
OutputClients == { output[i].client : i \in 1..Len(output) }

\* C13 as stated: the accounts written are, one row each, exactly the account
\* IDs a Deposit or Withdrawal named; an ID named only by Disputes, Resolves
\* or Chargebacks has no row.
SnapshotIsFundsAccounts ==
    status = "written" =>
        /\ OutputClients = { c \in ClientIDs : referenced[c] = "funds" }
        /\ Len(output) = Cardinality(OutputClients)

\* C13 amended: the accounts written are, one row each, exactly the account
\* IDs named by a transaction of any type that was handed to
\* process_transaction; the row of an account is the account as the ledger
\* holds it.
SnapshotIsReferencedAccounts ==
    status = "written" =>
        /\ OutputClients = { c \in ClientIDs : referenced[c] # "none" }
        /\ Len(output) = Cardinality(OutputClients)
        /\ \A i \in 1..Len(output) : output[i] = Row(clients[output[i].client])

\* C13 witness: two rows have been written, one of them for an account that
\* only Disputes, Resolves or Chargebacks named.
SnapshotWithControlOnlyAccount ==
    /\ status = "written"
    /\ Len(output) = 2
    /\ \E c \in ClientIDs : referenced[c] = "control"
    /\ \E c \in ClientIDs : referenced[c] = "funds"

\* this step handed a record of some type to process_transaction
AppliedAny == \E typ \in TransactionType : Applied(typ)

\* C14: an account exists exactly from the first transaction that names its
\* ID; it starts from available = held = total = 0, unlocked, and that
\* transaction's effect is applied to it (a Deposit of a leaves a, 0, a; a
\* Dispute, Resolve or Chargeback that finds no record leaves the zeros);
\* an account is never removed, and a later Deposit adds to the balances it
\* has instead of starting over.
AccountLifecycle ==
    [][/\ \A c \in ClientIDs : referenced[c] = "none" <=> c \notin DOMAIN clients
       /\ DOMAIN clients \subseteq DOMAIN clients'
       /\ AppliedAny => DOMAIN clients' = DOMAIN clients \cup {trans'.client}
       /\ ~AppliedAny => DOMAIN clients' = DOMAIN clients
       /\ (Applied("Deposit") /\ trans'.client \notin DOMAIN clients) =>
             clients'[trans'.client] =
                [id |-> trans'.client, available |-> unwrap(trans'.amount),
                 held |-> 0, total |-> unwrap(trans'.amount), locked |-> FALSE]
       /\ (/\ AppliedControl
           /\ trans'.client \notin DOMAIN clients
           /\ trans'.id \notin DOMAIN transactions) =>
             clients'[trans'.client] =
                [id |-> trans'.client, available |-> 0, held |-> 0,
                 total |-> 0, locked |-> FALSE]
       /\ (/\ Applied("Deposit")
           /\ trans'.client \in DOMAIN clients
           /\ ~clients[trans'.client].locked) =>
             clients'[trans'.client] =
                [clients[trans'.client] EXCEPT
                    !.available = @ + unwrap(trans'.amount),
                    !.total = @ + unwrap(trans'.amount)]]_vars

\* C14 witness: a second Deposit has been applied to an account and the
\* account holds the sum of both.
SecondDepositAdded ==
    /\ Processed("Deposit")
    /\ nread = 2
    /\ unwrap(trans.amount) = 1
    /\ Balances(clients[trans.client]) = <<2, 0, 2>>

\* ------------------------------------------- one account, a longer stream
\* The stream names a single account and carries valid records only; it is
\* one record longer than the streams of Spec.
OneAccountRecords == MaxRecords + 1

OneAccount == { t \in Decoded : t.client = 1 }

ReadValidOneAccount == ReadValidFrom(OneAccount, OneAccountRecords)

NextOneAccount == ReadValidOneAccount

SpecOneAccount == Init /\ [][NextOneAccount]_vars

\* this step is a Resolve that directly follows the Dispute kept in before
\* and names the same account and record
ResolveAfterDispute ==
    /\ Applied("Resolve")
    /\ before.taken
    /\ trans'.id = trans.id
    /\ trans'.client = trans.client

\* C15 as stated: for an unlocked account and a stored, not disputed Deposit
\* of positive amount on it, a Dispute directly followed by a Resolve of it
\* leaves available, held, total, locked and the in_dispute flag as they
\* were before the Dispute.
DisputeResolveRoundTrip ==
    [][ResolveAfterDispute =>
          /\ clients'[trans'.client] = before.client
          /\ transactions'[trans'.id] = before.record]_vars

\* C15 amended: the same when the account's held balance is not negative
\* before the Dispute; when it is negative the flag still returns to false
\* but the funds stay held.
DisputeResolveRoundTripIfHeldNonNegative ==
    [][ResolveAfterDispute =>
          /\ before.client.held >= 0 =>
                clients'[trans'.client] = before.client
          /\ before.client.held < 0 =>
                clients'[trans'.client] = clients[trans'.client]
          /\ transactions'[trans'.id] = before.record]_vars

\* C15 witness: a Deposit, its Dispute and its Resolve have been processed on
\* an account that held nothing, and the deposit is available again.
RoundTripDone ==
    /\ Processed("Resolve")
    /\ nread = 3
    /\ trans.id \in DOMAIN transactions
    /\ Stored(trans.id).typ = "Deposit"
    /\ Stored(trans.id).client = trans.client
    /\ ~Stored(trans.id).in_dispute
    /\ unwrap(Stored(trans.id).amount) = 1
    /\ clients[trans.client] =
          [id |-> trans.client, available |-> 1, held |-> 0, total |-> 1,
           locked |-> FALSE]

\* a stored record without its dispute flag
Fixed(r) == [typ |-> r.typ, client |-> r.client, id |-> r.id, amount |-> r.amount]

\* this step stores the record trans' under its ID: a Deposit, or a
\* Withdrawal that remove_funds let through
Stores ==
    \/ Applied("Deposit")
    \/ /\ Applied("Withdrawal")
       /\ remove_funds(Account(clients, trans'.client), unwrap(trans'.amount)).ok

\* C16 as stated: once a Deposit or Withdrawal record is stored under an ID,
\* every later state holds a record under that ID with the same type,
\* account ID and amount; only in_dispute changes.
StoredRecordFixed ==
    [][\A i \in DOMAIN transactions :
          /\ i \in DOMAIN transactions'
          /\ Fixed(transactions'[i]) = Fixed(transactions[i])]_vars

\* C16 amended: the same for every later transaction except a Deposit or a
\* successful Withdrawal that carries the same ID, which replaces the stored
\* record (dispute flag included) by its own.
StoredRecordFixedUnlessIdReused ==
    [][\A i \in DOMAIN transactions :
          /\ i \in DOMAIN transactions'
          /\ IF Stores /\ trans'.id = i
             THEN transactions'[i] = trans'
             ELSE Fixed(transactions'[i]) = Fixed(transactions[i])]_vars

\* C16 witness: a record has been disputed and charged back and is still
\* stored, while another record is stored next to it.
RecordKeptThroughChargeback ==
    /\ Processed("Chargeback")
    /\ trans.id \in DOMAIN transactions
    /\ clients[trans.client].locked
    /\ Stored(trans.id).client = trans.client
    /\ DOMAIN transactions = TransactionIDs

\* C17: process_transaction has what its unwraps need: every record of the
\* history is a Deposit or Withdrawal with a present amount, filed under its
\* own ID; a Deposit or Withdrawal handed to process_transaction has a
\* present amount; and the client it names is in the client map.
UnwrapsFindValues ==
    /\ \A i \in DOMAIN transactions :
          /\ transactions[i].typ \in {"Deposit", "Withdrawal"}
          /\ transactions[i].amount # None
          /\ transactions[i].id = i
    /\ (status = "reading" /\ nread > 0) =>
          /\ trans.typ \in {"Deposit", "Withdrawal"} => trans.amount # None
          /\ trans.client \in DOMAIN clients
          /\ clients[trans.client].id = trans.client

\* C17 witness: a Chargeback has been processed that found a stored
\* Withdrawal in dispute and unwrapped its amount.
ChargebackOfWithdrawalSeen ==
    /\ Processed("Chargeback")
    /\ trans.id \in DOMAIN transactions
    /\ Stored(trans.id).typ = "Withdrawal"
    /\ clients[trans.client].locked
    /\ nread = 3

\* C18: an account that is locked stays locked, and an unlocked account
\* becomes locked only in a step that processes a Chargeback naming that
\* account and a stored transaction that is in dispute.
LockOnlyByChargeback ==
    [][\A c \in ClientIDs :
          /\ Account(clients, c).locked => Account(clients', c).locked
          /\ (~Account(clients, c).locked /\ Account(clients', c).locked) =>
                /\ Applied("Chargeback")
                /\ trans'.client = c
                /\ trans'.id \in DOMAIN transactions
                /\ Stored(trans'.id).in_dispute]_vars

\* C18 witness: an account locked by a Chargeback is still locked after a
\* Resolve processed for it later.
StillLockedAfterResolve ==
    /\ Processed("Resolve")
    /\ nread = 4
    /\ clients[trans.client].locked
    /\ trans.id \in DOMAIN transactions

\* C19: a Dispute naming a stored record sets in_dispute, a Resolve naming a
\* disputed record clears it, and a Chargeback naming a disputed record
\* clears it and locks the account, whether or not hold_funds, restore_funds
\* or remove_funds succeeded.
FlagsIndependentOfFunds ==
    [][/\ (Applied("Dispute") /\ trans'.id \in DOMAIN transactions) =>
             transactions'[trans'.id].in_dispute
       /\ (/\ Applied("Resolve")
           /\ trans'.id \in DOMAIN transactions
           /\ Stored(trans'.id).in_dispute) =>
             ~transactions'[trans'.id].in_dispute
       /\ (/\ Applied("Chargeback")
           /\ trans'.id \in DOMAIN transactions
           /\ Stored(trans'.id).in_dispute) =>
             /\ ~transactions'[trans'.id].in_dispute
             /\ clients'[trans'.client].locked]_vars

\* C19 witness: a Dispute has been processed on a locked account, where
\* hold_funds fails: nothing is held and the record is marked in dispute.
DisputeMarkedOnLocked ==
    /\ Processed("Dispute")
    /\ trans.id \in DOMAIN transactions
    /\ Stored(trans.id).in_dispute
    /\ unwrap(Stored(trans.id).amount) > 0
    /\ clients[trans.client].locked
    /\ clients[trans.client].held = 0

\* -------------------------------------------------- positive amounts only
\* The stream carries valid records whose amounts are all positive.
Positive == { t \in Decoded : t.amount # None => unwrap(t.amount) > 0 }

\* the stream is one record longer than the streams of Spec
PositiveRecords == MaxRecords + 1

ReadValidPositive == ReadValidFrom(Positive, PositiveRecords)

NextPositive == ReadValidPositive

SpecPositive == Init /\ [][NextPositive]_vars

\* the IDs of the stored transactions of account c that are in dispute
DisputedOf(c) ==
    { i \in DOMAIN transactions :
        transactions[i].client = c /\ transactions[i].in_dispute }

RECURSIVE SumAmounts(_)
SumAmounts(ids) ==
    IF ids = {} THEN 0
    ELSE LET i == CHOOSE x \in ids : TRUE
         IN  unwrap(transactions[i].amount) + SumAmounts(ids \ {i})

\* C20 as stated: with positive amounts, each account's held balance is the
\* sum of the amounts of its stored transactions that are in dispute.
HeldIsDisputedSum ==
    \A c \in DOMAIN clients : clients[c].held = SumAmounts(DisputedOf(c))

\* C20 amended: the same for every account that is not locked, in a stream
\* that keeps to the orderly use: IDs of Deposits and Withdrawals are not
\* reused, a Dispute, Resolve or Chargeback names the account that owns the
\* record, and no Dispute names a record already in dispute.
HeldIsDisputedSumIfOrderly ==
    orderly =>
        \A c \in DOMAIN clients :
            ~clients[c].locked => clients[c].held = SumAmounts(DisputedOf(c))

\* C20 witness: in an orderly stream an unlocked account holds the amounts
\* of two transactions in dispute, at the end of a stream of five records.
TwoDisputesHeld ==
    /\ orderly
    /\ Processed("Dispute")
    /\ nread = 5
    /\ \E c \in DOMAIN clients :
          /\ ~clients[c].locked
          /\ Cardinality(DisputedOf(c)) = 2
          /\ clients[c].held = 2

Entry(m, k) == IF k \in DOMAIN m THEN m[k] ELSE "absent"

\* C22: processing one transaction leaves every account but the one named
\* by its client ID as it was, and every stored record but the one under its
\* transaction ID as it was; a Dispute, Resolve or Chargeback adds and
\* removes no record and changes at most the in_dispute flag of that one.
OneAccountOneRecord ==
    [][AppliedAny =>
          /\ \A c \in ClientIDs \ {trans'.client} :
                Entry(clients', c) = Entry(clients, c)
          /\ \A i \in TransactionIDs \ {trans'.id} :
                Entry(transactions', i) = Entry(transactions, i)
          /\ trans'.typ \in ControlTypes =>
                /\ DOMAIN transactions' = DOMAIN transactions
                /\ trans'.id \in DOMAIN transactions =>
                      Fixed(transactions'[trans'.id])
                          = Fixed(transactions[trans'.id])]_vars

\* C22 witness: a Dispute has marked the record of its ID and held funds on
\* its account while a second account with funds and a second stored record,
\* not in dispute, exist.
DisputeBesideOtherAccount ==
    /\ Processed("Dispute")
    /\ DOMAIN clients = ClientIDs
    /\ DOMAIN transactions = TransactionIDs
    /\ transactions[trans.id].client = trans.client
    /\ transactions[trans.id].in_dispute
    /\ clients[trans.client].held > 0
    /\ \E c \in ClientIDs \ {trans.client} :
          /\ clients[c].available > 0
          /\ clients[c].held = 0
          /\ ~clients[c].locked
    /\ \E i \in TransactionIDs \ {trans.id} :
          /\ transactions[i].client # trans.client
          /\ ~transactions[i].in_dispute

\* -------------------------------------------------- signs of the balances
\* C23: when every Deposit and Withdrawal amount of the stream is positive,
\* no account ever has a negative held balance.
HeldNeverNegative == \A c \in DOMAIN clients : clients[c].held >= 0

\* C23 witness: a Resolve named a record in dispute whose amount is held on
\* another account; restore_funds found held < amount on the account the
\* Resolve names and left it with nothing held, and the flag was cleared.
ResolveFoundNothingHeld ==
    /\ Processed("Resolve")
    /\ trans.id \in DOMAIN transactions
    /\ ~transactions[trans.id].in_dispute
    /\ transactions[trans.id].client # trans.client
    /\ clients[trans.client].held = 0
    /\ clients[trans.client].available = 0
    /\ clients[transactions[trans.id].client].held
           = unwrap(transactions[trans.id].amount)
    /\ \A i \in DOMAIN transactions : ~transactions[i].in_dispute

\* C24: when every amount of the stream is positive, a Deposit, Withdrawal,
\* Resolve or Chargeback never takes an account's available balance from a
\* non-negative value to a negative one; only a Dispute can.
OnlyDisputeOverdraws ==
    [][(AppliedAny /\ trans'.typ # "Dispute") =>
          \A c \in ClientIDs :
              Account(clients, c).available >= 0 =>
                  Account(clients', c).available >= 0]_vars

\* C24 witness: a Dispute of a Deposit whose funds had been withdrawn has
\* taken the available balance of its account below zero.
DisputeOverdrew ==
    /\ Processed("Dispute")
    /\ trans.id \in DOMAIN transactions
    /\ transactions[trans.id].typ = "Deposit"
    /\ transactions[trans.id].client = trans.client
    /\ \E i \in DOMAIN transactions :
          /\ transactions[i].typ = "Withdrawal"
          /\ transactions[i].client = trans.client
    /\ clients[trans.client].available < 0
    /\ clients[trans.client].held > 0
    /\ clients[trans.client].total = 0

====
